---- MODULE Spec2Model ----
(***************************************************************************)
(* Board game tracker REST API (boardgametracker): the relational store    *)
(* declared in models.py and the collection/item handlers of               *)
(* resources/player.py, resources/map.py and resources/match.py.           *)
(*                                                                         *)
(* A request is one atomic step of the sequential specification Spec: the  *)
(* handler runs start to finish on one worker.  SpecConc splits a create   *)
(* into its validate, insert and commit steps for two concurrent workers.  *)
(***************************************************************************)
EXTENDS Integers, FiniteSets, Sequences, TLC

VARIABLES db, last, pc, sess, resp, session, prev, trip, cache, quiet

vars == <<db, last, pc, sess, resp, session, prev, trip, cache, quiet>>

---------------------------------------------------------------------------
(* Bounds of the model *)

\* number of distinct names a request may carry
MaxNames == 2
\* largest primary key a table hands out
MaxId == 2
\* largest number of rows stored over all tables
MaxRows == 3
\* the same where the cache and the clock are part of the state
CacheRows == 2

NamePool == <<"John", "Nick", "Foxes", "dust">>
Names == {NamePool[i] : i \in 1..MaxNames}
Ids == 1..MaxId

\* SQL NULL / Python None in a column
NULL == 0

---------------------------------------------------------------------------
(* JSON values of a request body: a body is a function from the keys that  *)
(* are present to tagged values.                                           *)

Str(s) == <<"string", s>>
Num(n) == <<"number", n>>
JNull == <<"null", 0>>
TypeOf(v) == v[1]
ValOf(v) == v[2]

\* {"name": v}
NameBody(v) == [k \in {"name"} |-> v]
EmptyBody == [k \in {} |-> JNull]
Has(body, k) == k \in DOMAIN body

\* jsonschema.validate against a schema {"type": "object", "required": [...],
\* "properties": {k: {"type": t}}}: every required key is present and every
\* present key that has a declared property carries a value of its type.
\* ("format" is not enforced: validate() is called without a format checker.)
\* (variant: the type of "name" is not declared)
Validate_NameTypeUnchecked(body, schema) ==
    /\ \A k \in schema.required : Has(body, k)
    /\ \A k \in DOMAIN body :
         (k \in DOMAIN schema.props /\ k # "name")
            => TypeOf(body[k]) = schema.props[k]
Validate(body, schema) ==
    /\ \A k \in schema.required : Has(body, k)
    /\ \A k \in DOMAIN body :
         k \in DOMAIN schema.props => TypeOf(body[k]) = schema.props[k]

NameSchema == [required |-> {"name"}, props |-> [name |-> "string"]]
Player_get_schema == NameSchema
Map_get_schema == NameSchema
Match_get_schema ==
    [required |-> {"date", "turns"},
     props |-> [date |-> "string", turns |-> "number"]]

\* `if not request.json`: no JSON body (wrong content type) or a falsy one ({})
NotRequestJson(ctype, body) == ctype # "json" \/ DOMAIN body = {}

---------------------------------------------------------------------------
(* Dates: datetime.fromisoformat of the strings a request may carry *)

IsIso(s) == s \in {"2022-12-25", "2022-12-25T00:00:00"}
\* the datetime value, as <<year, month, day, hour, minute, second>>
fromisoformat(s) ==
    CASE s = "2022-12-25" -> <<2022, 12, 25, 0, 0, 0>>
      [] s = "2022-12-25T00:00:00" -> <<2022, 12, 25, 0, 0, 0>>

\* datetime.isoformat() of such a value
isoformat(dt) == IF dt = <<2022, 12, 25, 0, 0, 0>> THEN "2022-12-25T00:00:00" ELSE ""

---------------------------------------------------------------------------
(* The relational store: one set of rows per table of models.py *)

Kinds == {"player", "team", "game", "ruleset", "map", "match",
          "player_result", "team_result"}
\* tables whose name column is declared unique=True
UniqueKinds == {"player", "team", "game", "map"}

Player(id, name) == [id |-> id, name |-> name]
Team(id, name) == [id |-> id, name |-> name]
Game(id, name) == [id |-> id, name |-> name]
Ruleset(id, name, game_id) == [id |-> id, name |-> name, game_id |-> game_id]
Map(id, name, game_id) == [id |-> id, name |-> name, game_id |-> game_id]
Match(id, date, turns, game_id, ruleset_id, map_id) ==
    [id |-> id, date |-> date, turns |-> turns, game_id |-> game_id,
     ruleset_id |-> ruleset_id, map_id |-> map_id]
Player_result(id, points, match_id, player_id, team_id) ==
    [id |-> id, points |-> points, match_id |-> match_id,
     player_id |-> player_id, team_id |-> team_id]
Team_result(id, points, order, match_id, team_id) ==
    [id |-> id, points |-> points, order |-> order, match_id |-> match_id,
     team_id |-> team_id]

\* db.create_all(): every table exists and is empty
EmptyStore == [k \in Kinds |-> {}]

IdsOf(rows) == {r.id : r \in rows}
NamesOf(rows) == {r.name : r \in rows}
RowById(rows, id) == CHOOSE r \in rows : r.id = id
RowByName(rows, name) == CHOOSE r \in rows : r.name = name
MaxOf(S) == CHOOSE m \in S : \A x \in S : x <= m
TotalRows(d) ==
    Cardinality(d.player) + Cardinality(d.team) + Cardinality(d.game)
    + Cardinality(d.ruleset) + Cardinality(d.map) + Cardinality(d.match)
    + Cardinality(d.player_result) + Cardinality(d.team_result)

\* primary_key=True on an Integer column: the store hands out the largest
\* stored key plus one (SQLite rowid, the store of the test fixture)
NextId(rows) == IF rows = {} THEN 1 ELSE MaxOf(IdsOf(rows)) + 1

\* unique=True: no other row of the table carries the name
\* (variant: a column without the unique index)
UniqueOK_NoCheck(rows, id, name) == TRUE
UniqueOK(rows, id, name) == \A r \in rows : r.id # id => r.name # name

\* db.ForeignKey(...), enforced (PRAGMA foreign_keys=ON): the reference is
\* NULL or the key of a stored row of the referenced table
\* (variant: a store that does not check the reference)
FkOK_Unchecked(rows, ref) == TRUE
FkOK(rows, ref) == ref = NULL \/ ref \in IdsOf(rows)

\* the constraints the store checks when a row of `kind` is flushed;
\* FALSE is an IntegrityError
RowOK(d, kind, row) ==
    CASE kind \in {"player", "team", "game"} -> UniqueOK(d[kind], row.id, row.name)
      [] kind = "map" ->
            UniqueOK(d.map, row.id, row.name) /\ FkOK(d.game, row.game_id)
      [] kind = "ruleset" -> FkOK(d.game, row.game_id)
      [] kind = "match" ->
            /\ FkOK(d.game, row.game_id)
            /\ FkOK(d.ruleset, row.ruleset_id)
            /\ FkOK(d.map, row.map_id)
      [] kind = "player_result" ->
            /\ FkOK(d.match, row.match_id)
            /\ FkOK(d.player, row.player_id)
            /\ FkOK(d.team, row.team_id)
      [] kind = "team_result" ->
            FkOK(d.match, row.match_id) /\ FkOK(d.team, row.team_id)

\* db.session.add(row); db.session.commit() of a new row
Insert(d, kind, row) == [d EXCEPT ![kind] = @ \cup {row}]
\* commit of a changed row that is already stored
Update(d, kind, row) ==
    [d EXCEPT ![kind] = {r \in @ : r.id # row.id} \cup {row}]

\* ondelete="SET NULL": the column `col` of every row referring to `id`
\* is cleared
\* (variant: the reference is left as it was)
SetNull_Keep(rows, col, id) == rows
SetNull(rows, col, id) ==
    {IF r[col] = id THEN [r EXCEPT ![col] = NULL] ELSE r : r \in rows}
\* ondelete="CASCADE": every row referring to `id` is removed
\* (variant: the referring rows are kept)
Cascade_Keep(rows, col, id) == rows
Cascade(rows, col, id) == {r \in rows : r[col] # id}

\* db.session.delete(row); db.session.commit(), with the ondelete rules of
\* the columns that refer to the table
\* (variant: the delete is never committed)
Delete_NoCommit(d, kind, id) == d
Delete(d, kind, id) ==
    LET d1 == [d EXCEPT ![kind] = {r \in @ : r.id # id}]
    IN CASE kind = "player" ->
              [d1 EXCEPT !.player_result = SetNull(@, "player_id", id)]
         [] kind = "team" ->
              [d1 EXCEPT !.player_result = SetNull(@, "team_id", id),
                         !.team_result = SetNull(@, "team_id", id)]
         [] kind = "game" ->
              [d1 EXCEPT !.map = SetNull(@, "game_id", id),
                         !.ruleset = SetNull(@, "game_id", id),
                         !.match = SetNull(@, "game_id", id)]
         [] kind = "map" -> [d1 EXCEPT !.match = SetNull(@, "map_id", id)]
         [] kind = "ruleset" ->
              [d1 EXCEPT !.match = SetNull(@, "ruleset_id", id)]
         [] kind = "match" ->
              [d1 EXCEPT !.player_result = Cascade(@, "match_id", id),
                         !.team_result = Cascade(@, "match_id", id)]
         [] OTHER -> d1

---------------------------------------------------------------------------
(* Responses *)

NoLoc == <<>>
\* url_for("api.<kind>item", <kind>=row): the item path of the row
url_for(kind, id) == <<kind, id>>
\* url_for("api.<kind>collection")
url_for_collection(kind) == <<kind>>
\* url_for("api.<kind>item", <kind>=row, match=match) and
\* url_for("api.<kind>collection", match=match): results live under their
\* Match
url_for_result(kind, match_id, id) == <<"match", match_id, kind, id>>
url_for_results(kind, match_id) == <<"match", match_id, kind>>
\* MATCH_PROFILE
MATCH_PROFILE == <<"profiles", "match">>

---------------------------------------------------------------------------
(* Documents of a response body.  A document has the fields of its data,  *)
(* a map of controls (name to href) and sequences of nested documents; a  *)
(* plain JSON list is a document with items that carry data only.         *)

NoControls == [k \in {} |-> NoLoc]
\* BGTBuilder(data): a document seeded with the fields of data
BGTBuilder(data) ==
    [data |-> data, controls |-> NoControls, item |-> <<>>, items |-> <<>>,
     player_results |-> <<>>, team_results |-> <<>>]
NoDoc == BGTBuilder(EmptyBody)

\* add_control(name, href): doc["@controls"][name] = {"href": href}
add_control(doc, name, href) ==
    LET c == doc.controls
    IN [doc EXCEPT !.controls =
            [k \in DOMAIN c \cup {name} |-> IF k = name THEN href ELSE c[k]]]

\* the rows of a query in the order of their keys
RECURSIVE InOrder(_)
InOrder(rows) ==
    IF rows = {} THEN <<>>
    ELSE LET r == CHOOSE x \in rows : \A y \in rows : x.id <= y.id
         IN <<r>> \o InOrder(rows \ {r})

\* a column as a JSON value
JsonOf(v) == IF v = NULL THEN JNull ELSE Num(v)

\* what a handler leaves: the committed store, the status, Location and
\* body of the response, and the state of the worker's database session
Result(d, status, loc) ==
    [db |-> d, status |-> status, loc |-> loc, session |-> "clean",
     doc |-> NoDoc]
\* Response(json.dumps(body), ...)
WithBody(r, doc) == [r EXCEPT !.doc = doc]
\* db.session.commit() raised and the handler ends without
\* db.session.rollback(): the transaction of the session is inactive
NoRollback(r) == [r EXCEPT !.session = "inactive"]

\* a column value from a JSON value: null is None
ColOf(v) == IF v = JNull THEN NULL ELSE ValOf(v)

---------------------------------------------------------------------------
(* resources/player.py *)

PlayerCollection_post(d, ctype, body) ==
    IF NotRequestJson(ctype, body) THEN Result(d, 415, NoLoc)
    ELSE IF ~Validate(body, Player_get_schema) THEN Result(d, 400, NoLoc)
    ELSE LET player == Player(NextId(d.player), ValOf(body["name"]))
         IN IF ~RowOK(d, "player", player) THEN NoRollback(Result(d, 409, NoLoc))
            ELSE Result(Insert(d, "player", player), 201, NoLoc)

\* [{"name": ...} for each Player]
\* (variant: the first Player of the query is left out)
PlayerCollection_get_SkipFirst(d) ==
    LET player_list == InOrder(d.player)
        data_object == [i \in 1..Len(player_list) - 1 |->
                           BGTBuilder(NameBody(Str(player_list[i + 1].name)))]
    IN WithBody(Result(d, 200, NoLoc), [NoDoc EXCEPT !.items = data_object])
PlayerCollection_get(d) ==
    LET player_list == InOrder(d.player)
        data_object == [i \in 1..Len(player_list) |->
                           BGTBuilder(NameBody(Str(player_list[i].name)))]
    IN WithBody(Result(d, 200, NoLoc), [NoDoc EXCEPT !.items = data_object])

PlayerItem_get(d, player) == Result(d, 200, NoLoc)

\* the method returns nothing when the commit succeeds: the framework
\* answers 200 with a null body
PlayerItem_put(d, player, ctype, body) ==
    IF NotRequestJson(ctype, body) THEN Result(d, 415, NoLoc)
    ELSE IF ~Validate(body, Player_get_schema) THEN Result(d, 400, NoLoc)
    ELSE LET changed == [player EXCEPT !.name = ValOf(body["name"])]
         IN IF ~RowOK(d, "player", changed)
            THEN NoRollback(Result(d, 409, NoLoc))
            ELSE Result(Update(d, "player", changed), 200, NoLoc)

PlayerItem_delete(d, player) == Result(Delete(d, "player", player.id), 204, NoLoc)

---------------------------------------------------------------------------
(* resources/map.py *)

\* game is the id of the Game of the route, NULL on the plain /map/ route.
\* An IntegrityError of the commit is not caught: the request ends in 500.
\* (variant: a handler without the check of the Game of the route)
MapCollection_post_AnyRoute(d, game, ctype, body) ==
    IF NotRequestJson(ctype, body) THEN Result(d, 415, NoLoc)
    ELSE IF ~Validate(body, Map_get_schema) THEN Result(d, 400, NoLoc)
    ELSE LET map == Map(NextId(d.map), ValOf(body["name"]), game)
         IN IF ~RowOK(d, "map", map) THEN NoRollback(Result(d, 500, NoLoc))
            ELSE Result(Insert(d, "map", map), 201, NoLoc)
MapCollection_post(d, game, ctype, body) ==
    IF game = NULL THEN Result(d, 400, NoLoc)
    ELSE IF NotRequestJson(ctype, body) THEN Result(d, 415, NoLoc)
    ELSE IF ~Validate(body, Map_get_schema) THEN Result(d, 400, NoLoc)
    ELSE LET map == Map(NextId(d.map), ValOf(body["name"]), game)
         IN IF ~RowOK(d, "map", map) THEN NoRollback(Result(d, 500, NoLoc))
            ELSE Result(Insert(d, "map", map), 201, NoLoc)

\* {"name": ..., "game_id": ...}
MapEntry(map) ==
    [k \in {"name", "game_id"} |->
        IF k = "name" THEN Str(map.name) ELSE JsonOf(map.game_id)]

\* the handler of GET /map/ (game = NULL: all maps) and of
\* GET /game/<game>/map/ (the maps of that Game)
MapCollection_get(d, game) ==
    LET maps == InOrder(IF game = NULL THEN d.map
                        ELSE {m \in d.map : m.game_id = game})
        data_object == [i \in 1..Len(maps) |-> BGTBuilder(MapEntry(maps[i]))]
    IN WithBody(Result(d, 200, NoLoc), [NoDoc EXCEPT !.items = data_object])

MapItem_get(d, map) == Result(d, 200, NoLoc)

MapItem_put(d, map, ctype, body) ==
    IF NotRequestJson(ctype, body) THEN Result(d, 415, NoLoc)
    ELSE IF ~Validate(body, Map_get_schema) THEN Result(d, 400, NoLoc)
    ELSE LET changed == [map EXCEPT !.name = ValOf(body["name"])]
         IN IF ~RowOK(d, "map", changed) THEN NoRollback(Result(d, 409, NoLoc))
            ELSE Result(Update(d, "map", changed), 200, NoLoc)

MapItem_delete(d, map) == Result(Delete(d, "map", map.id), 204, NoLoc)

---------------------------------------------------------------------------
(* resources/match.py *)

RefKeys == {"game_id", "ruleset_id", "map_id"}

\* what happens between validation and commit in post and put: a missing
\* reference key raises KeyError and a date string that is no ISO date
\* raises ValueError, both outside every try block
MatchFieldsRaise(body) ==
    \/ ~IsIso(ValOf(body["date"]))
    \/ \E k \in RefKeys : ~Has(body, k)

MatchCollection_post(d, ctype, body) ==
    IF ctype # "json" THEN Result(d, 415, NoLoc)
    ELSE IF ~Validate(body, Match_get_schema) THEN Result(d, 400, NoLoc)
    ELSE IF MatchFieldsRaise(body) THEN Result(d, 500, NoLoc)
    ELSE LET match == Match(NextId(d.match),
                            fromisoformat(ValOf(body["date"])),
                            ValOf(body["turns"]),
                            ColOf(body["game_id"]),
                            ColOf(body["ruleset_id"]),
                            ColOf(body["map_id"]))
         IN IF ~RowOK(d, "match", match) THEN NoRollback(Result(d, 500, NoLoc))
            ELSE Result(Insert(d, "match", match), 201, url_for("match", match.id))

\* match.serialize(long=True): the fields of the Match
Match_serialize(match) ==
    [k \in {"id", "date", "turns"} |->
        CASE k = "id" -> Num(match.id)
          [] k = "date" -> Str(isoformat(match.date))
          [] k = "turns" -> Num(match.turns)]
\* player_result.serialize(long=False), team_result.serialize(long=False)
Result_serialize(row) == [k \in {"points"} |-> Num(row.points)]

\* the controls the builder adds by name
add_control_all_matches(doc) ==
    add_control(doc, "BGT:matches-all", url_for_collection("match"))
add_control_all_players(doc) ==
    add_control(doc, "BGT:players-all", url_for_collection("player"))
add_control_all_teams(doc) ==
    add_control(doc, "BGT:teams-all", url_for_collection("team"))
add_control_all_games(doc) ==
    add_control(doc, "BGT:games-all", url_for_collection("game"))
add_control_add_match(doc) ==
    add_control(doc, "BGT:add-match", url_for_collection("match"))
\* the Game of the match, when it has one
add_control_get_game(d, doc, game_id) ==
    IF game_id = NULL THEN doc
    ELSE add_control(doc, "BGT:game", url_for("game", RowById(d.game, game_id).name))

\* one member of the items of the collection
\* (variant: the item carries its profile only)
MatchCollection_item_NoSelf(match) ==
    add_control(BGTBuilder(Match_serialize(match)), "profile", MATCH_PROFILE)
MatchCollection_item(match) ==
    add_control(add_control(BGTBuilder(Match_serialize(match)),
                            "self", url_for("match", match.id)),
                "profile", MATCH_PROFILE)

MatchCollection_get(d) ==
    LET matches == InOrder(d.match)
        body == add_control_add_match(add_control_all_games(
                  add_control_all_teams(add_control_all_players(
                    add_control_all_matches(
                      add_control(NoDoc, "self", url_for_collection("match")))))))
    IN WithBody(Result(d, 200, NoLoc),
                [body EXCEPT !.items =
                    [i \in 1..Len(matches) |-> MatchCollection_item(matches[i])]])

\* one member of player_results or team_results of a Match
\* (variant: a member without its edit control)
MatchItem_result_NoEdit(kind, row, match) ==
    add_control(BGTBuilder(Result_serialize(row)),
                "self", url_for_result(kind, match.id, row.id))
MatchItem_result(kind, row, match) ==
    add_control(add_control(BGTBuilder(Result_serialize(row)),
                            "self", url_for_result(kind, match.id, row.id)),
                "edit", url_for_result(kind, match.id, row.id))

\* match.player_result, match.team_result: the results of the Match
ResultsOf(d, kind, match) == InOrder({r \in d[kind] : r.match_id = match.id})

MatchItem_get(d, match) ==
    LET player_result == ResultsOf(d, "player_result", match)
        team_result == ResultsOf(d, "team_result", match)
        b1 == [NoDoc EXCEPT !.item = <<BGTBuilder(Match_serialize(match))>>]
        b2 == add_control(b1, "self", url_for("match", match.id))
        b3 == add_control(b2, "profile", MATCH_PROFILE)
        b4 == add_control(b3, "edit", url_for("match", match.id))
        b5 == add_control_all_matches(add_control_get_game(d, b4, match.game_id))
        b6 == [b5 EXCEPT !.player_results =
                  [i \in 1..Len(player_result) |->
                      MatchItem_result("player_result", player_result[i], match)]]
        b7 == add_control(b6, "BGT:add-player-result",
                          url_for_results("player_result", match.id))
        b8 == [b7 EXCEPT !.team_results =
                  [i \in 1..Len(team_result) |->
                      MatchItem_result("team_result", team_result[i], match)]]
        b9 == add_control(b8, "BGT:add-team-result",
                          url_for_results("team_result", match.id))
    IN WithBody(Result(d, 200, NoLoc), b9)

MatchItem_put(d, match, ctype, body) ==
    IF ctype # "json" THEN Result(d, 415, NoLoc)
    ELSE IF ~Validate(body, Match_get_schema) THEN Result(d, 400, NoLoc)
    ELSE IF MatchFieldsRaise(body) THEN Result(d, 500, NoLoc)
    ELSE LET changed == Match(match.id,
                              fromisoformat(ValOf(body["date"])),
                              ValOf(body["turns"]),
                              ColOf(body["game_id"]),
                              ColOf(body["ruleset_id"]),
                              ColOf(body["map_id"]))
         IN IF ~RowOK(d, "match", changed) THEN Result(d, 409, NoLoc)
            ELSE Result(Update(d, "match", changed), 204, url_for("match", match.id))

MatchItem_delete(d, match) == Result(Delete(d, "match", match.id), 204, NoLoc)

---------------------------------------------------------------------------
(* The handlers of Team, Game, Ruleset and of the results of a Match, and  *)
(* the URL converters, after the contract of the resource handlers:        *)
(* create validates then inserts (201 with Location, 409 on a conflict),   *)
(* update validates then replaces (204, 409), delete removes (204), and a  *)
(* key that does not resolve is answered 404 before the handler runs.      *)

\* the row a route key resolves to; keys of Player, Team and Game are
\* names, keys of Map, Ruleset and Match are ids
KeyedByName == {"player", "team", "game"}
Resolves(d, kind, key) ==
    IF kind \in KeyedByName THEN key \in NamesOf(d[kind]) ELSE key \in IdsOf(d[kind])
Resolve(d, kind, key) ==
    IF kind \in KeyedByName THEN RowByName(d[kind], key) ELSE RowById(d[kind], key)
KeyOf(kind, row) == IF kind \in KeyedByName THEN row.name ELSE row.id

NamedRow(d, kind, name, game) ==
    IF kind = "ruleset" THEN Ruleset(NextId(d[kind]), name, game)
    ELSE [id |-> NextId(d[kind]), name |-> name]

Collection_post(d, kind, game, ctype, body) ==
    IF ctype # "json" THEN Result(d, 415, NoLoc)
    ELSE IF ~Validate(body, NameSchema) THEN Result(d, 400, NoLoc)
    ELSE LET row == NamedRow(d, kind, ValOf(body["name"]), game)
         IN IF ~RowOK(d, kind, row) THEN Result(d, 409, NoLoc)
            ELSE Result(Insert(d, kind, row), 201, url_for(kind, KeyOf(kind, row)))

Item_get(d, kind, row) == Result(d, 200, NoLoc)

Item_put(d, kind, row, ctype, body) ==
    IF ctype # "json" THEN Result(d, 415, NoLoc)
    ELSE IF ~Validate(body, NameSchema) THEN Result(d, 400, NoLoc)
    ELSE LET changed == [row EXCEPT !.name = ValOf(body["name"])]
         IN IF ~RowOK(d, kind, changed) THEN Result(d, 409, NoLoc)
            ELSE Result(Update(d, kind, changed), 204, NoLoc)

Item_delete(d, kind, row) == Result(Delete(d, kind, row.id), 204, NoLoc)

PlayerResult_get_schema ==
    [required |-> {"points"}, props |-> [points |-> "number"]]
TeamResult_get_schema ==
    [required |-> {"points"}, props |-> [points |-> "number", order |-> "number"]]

\* a result row is created under its Match; the player and the team it
\* refers to are optional
PlayerResultCollection_post(d, match, ctype, body, player_id, team_id) ==
    IF ctype # "json" THEN Result(d, 415, NoLoc)
    ELSE IF ~Validate(body, PlayerResult_get_schema) THEN Result(d, 400, NoLoc)
    ELSE LET row == Player_result(NextId(d.player_result), ValOf(body["points"]),
                                  match.id, player_id, team_id)
         IN IF ~RowOK(d, "player_result", row) THEN Result(d, 409, NoLoc)
            ELSE Result(Insert(d, "player_result", row), 201,
                        url_for("player_result", row.id))

TeamResultCollection_post(d, match, ctype, body, team_id) ==
    IF ctype # "json" THEN Result(d, 415, NoLoc)
    ELSE IF ~Validate(body, TeamResult_get_schema) \/ ~Has(body, "order")
         THEN Result(d, 400, NoLoc)
    ELSE LET row == Team_result(NextId(d.team_result), ValOf(body["points"]),
                                ValOf(body["order"]), match.id, team_id)
         IN IF ~RowOK(d, "team_result", row) THEN Result(d, 409, NoLoc)
            ELSE Result(Insert(d, "team_result", row), 201,
                        url_for("team_result", row.id))

---------------------------------------------------------------------------
(* Requests a client may send *)

WrongType == 123
NameBodies ==
    {EmptyBody} \cup {NameBody(Str(n)) : n \in Names}
    \cup {NameBody(Num(WrongType))}
\* <<content type, body>>; a request of another content type has no JSON
NameRequests == {<<"json", b>> : b \in NameBodies} \cup {<<"other", EmptyBody>>}

RefValues == {JNull} \cup {Num(i) : i \in Ids}
MatchBody(date, turns, game_id, ruleset_id, map_id) ==
    [k \in {"date", "turns", "game_id", "ruleset_id", "map_id"} |->
        CASE k = "date" -> date
          [] k = "turns" -> turns
          [] k = "game_id" -> game_id
          [] k = "ruleset_id" -> ruleset_id
          [] k = "map_id" -> map_id]
Without(body, keys) == [k \in DOMAIN body \ keys |-> body[k]]
FullMatchBody == MatchBody(Str("2022-12-25"), Num(500), Num(1), Num(1), Num(1))
MatchBodies ==
    {MatchBody(Str("2022-12-25"), Num(30), g, JNull, JNull) : g \in RefValues}
    \cup {MatchBody(Str("2022-12-25"), Num(30), Num(1), Num(1), Num(1)),
          MatchBody(Str("2022-12-25"), Num(30), JNull, Num(1), JNull),
          MatchBody(Str("2022-12-25"), Num(30), JNull, JNull, Num(1)),
          MatchBody(Str("2022-12-25T00:00:00"), Num(500), JNull, JNull, JNull),
          MatchBody(Str("xmas"), Num(30), JNull, JNull, JNull),
          MatchBody(Num(WrongType), Num(30), JNull, JNull, JNull),
          MatchBody(Str("2022-12-25"), Str("John"), JNull, JNull, JNull),
          Without(FullMatchBody, {"map_id"}),
          Without(FullMatchBody, RefKeys),
          Without(FullMatchBody, {"date"}),
          EmptyBody}
MatchRequests == {<<"json", b>> : b \in MatchBodies} \cup {<<"other", EmptyBody>>}

Points == {23}
ResultBodies ==
    {[k \in {"points", "order"} |-> IF k = "points" THEN Num(p) ELSE Num(1)] :
        p \in Points}
    \cup {[k \in {"order"} |-> Num(1)]}
ResultRequests == {<<"json", b>> : b \in ResultBodies}

---------------------------------------------------------------------------
(* The serializers of models.py: deserialize(doc) fills an entity from a   *)
(* document, serialize() renders an entity as a document.  An entity is a  *)
(* function from its attributes to values; an attribute never assigned is  *)
(* None.                                                                   *)

SchemaOf(kind) ==
    CASE kind = "match" -> Match_get_schema
      [] kind = "player_result" -> PlayerResult_get_schema
      [] kind = "team_result" -> TeamResult_get_schema
      [] OTHER -> NameSchema

Attrs(kind) ==
    CASE kind \in {"player", "team", "game"} -> {"id", "name"}
      [] kind \in {"map", "ruleset"} -> {"id", "name", "game_id"}
      [] kind = "match" ->
            {"id", "date", "turns", "game_id", "ruleset_id", "map_id"}
      [] kind = "player_result" ->
            {"id", "points", "match_id", "player_id", "team_id"}
      [] kind = "team_result" -> {"id", "points", "order", "match_id", "team_id"}

\* E(): a new entity
Fresh(kind) == [a \in Attrs(kind) |-> JNull]

\* deserialize raises: a key it reads is missing from the document
\* (KeyError); Match.deserialize calls datetime.fromisoformat where
\* `datetime` is the module (models.py imports `datetime`, not
\* `datetime.datetime`), which has no such attribute (AttributeError)
DeserializeRaises(kind, doc) ==
    CASE kind = "match" -> TRUE
      [] kind = "player_result" -> ~Has(doc, "points")
      [] kind = "team_result" -> ~Has(doc, "points") \/ ~Has(doc, "order")
      [] OTHER -> ~Has(doc, "name")

deserialize(kind, ent, doc) ==
    CASE kind = "match" ->
            [ent EXCEPT !.date = <<"datetime", fromisoformat(ValOf(doc["date"]))>>,
                        !.turns = doc["turns"]]
      [] kind = "player_result" -> [ent EXCEPT !.points = doc["points"]]
      [] kind = "team_result" ->
            [ent EXCEPT !.points = doc["points"], !.order = doc["order"]]
      [] OTHER -> [ent EXCEPT !.name = doc["name"]]

\* a Player lists its results; a new Player has none
EmptyList == <<"array", <<>>>>

serialize(kind, ent) ==
    CASE kind = "player" ->
            [k \in {"name", "id", "list_of_results"} |->
                IF k = "list_of_results" THEN EmptyList ELSE ent[k]]
      [] kind \in {"team", "game"} -> [k \in {"name", "id"} |-> ent[k]]
      [] kind \in {"map", "ruleset"} -> [k \in {"name"} |-> ent[k]]
      [] kind = "match" ->
            [k \in {"name", "turns"} |->
                IF k = "name" THEN Str(isoformat(ValOf(ent.date))) ELSE ent.turns]
      [] kind = "player_result" ->
            [k \in {"points", "match_id", "player_id", "team_id"} |-> ent[k]]
      [] kind = "team_result" -> [k \in {"points", "order"} |-> ent[k]]

\* the payloads of a round trip: every body that is valid under the schema
\* of the kind
AllNames == {NamePool[i] : i \in DOMAIN NamePool}
PointsOnly == {[k \in {"points"} |-> Num(p)] : p \in Points}
Payloads(kind) ==
    {b \in {NameBody(Str(n)) : n \in AllNames} \cup MatchBodies
            \cup ResultBodies \cup PointsOnly :
        Validate(b, SchemaOf(kind))}

---------------------------------------------------------------------------
(* State *)

\* the paths whose GET is cached: the key of a cached response is the path
\* of the request
\* (variant: one key for every map list)
MapsPath_OneKey(game_name) == url_for_collection("map")
MapsPath(game_name) ==
    IF game_name = "" THEN url_for_collection("map") ELSE <<"game", game_name, "map">>
CachedPaths ==
    {url_for_collection("match")} \cup {MapsPath(n) : n \in Names \cup {""}}

Timeout == 5
NoEntry == [live |-> FALSE, age |-> 0, doc |-> NoDoc]
EmptyCache == [p \in CachedPaths |-> NoEntry]

\* a create, update or delete that was committed
Committed(op, status) ==
    op \in {"create", "put", "delete"} /\ status \in {200, 201, 204}

NoRequest ==
    [op |-> "none", kind |-> "none", name |-> "", id |-> 0, ctype |-> "json",
     body |-> EmptyBody, status |-> 0, loc |-> NoLoc, doc |-> NoDoc]

Workers == {1, 2}
NoSession == [kind |-> "none", game |-> NULL, ctype |-> "json", body |-> EmptyBody]

\* no round trip of a serializer is under way
NoTrip ==
    [kind |-> "none", stage |-> 0, raised |-> FALSE, ent |-> EmptyBody,
     doc |-> EmptyBody, first |-> EmptyBody]

\* the sequential server: no worker is in the middle of a request
Init ==
    /\ db = EmptyStore
    /\ last = NoRequest
    /\ pc = [w \in Workers |-> "idle"]
    /\ sess = [w \in Workers |-> NoSession]
    /\ resp = [w \in Workers |-> 0]
    /\ session = "clean"
    /\ prev = 0
    /\ trip = NoTrip
    /\ cache = EmptyCache
    /\ quiet = 0

WithinBounds(d) ==
    /\ TotalRows(d) <= MaxRows
    /\ \A k \in Kinds : IdsOf(d[k]) \subseteq Ids

\* a create on a collection path without a converter is refused for its
\* content type or its body before the session is used
BeforeAnyQuery(op, name, id, r) ==
    op = "create" /\ name = "" /\ id = 0 /\ r.status \in {400, 415}

\* the outcome r of a handler in a session in state s: a session whose
\* transaction is inactive raises at the first query or commit, the request
\* ends in 500 and nothing is written
InSession(s, op, name, id, r) ==
    IF s = "clean" THEN r
    ELSE IF BeforeAnyQuery(op, name, id, r) THEN [r EXCEPT !.session = s]
    ELSE [db |-> db, status |-> 500, loc |-> NoLoc, session |-> s, doc |-> NoDoc]

\* a worker takes a request when the previous one has been answered; the
\* request and its response are recorded and the store is what the handler
\* committed
Serve(op, kind, name, id, ctype, body, r) ==
    /\ last = NoRequest
    /\ WithinBounds(r.db)
    /\ LET out == InSession(session, op, name, id, r)
       IN /\ db' = out.db
          /\ last' = [op |-> op, kind |-> kind, name |-> name, id |-> id,
                      ctype |-> ctype, body |-> body, status |-> out.status,
                      loc |-> out.loc, doc |-> out.doc]
          /\ session' = out.session
          /\ quiet' = IF Committed(op, out.status) THEN 0 ELSE quiet
    /\ UNCHANGED <<pc, sess, resp, prev, trip>>

\* a request to a handler that is not cached
Respond(op, kind, name, id, ctype, body, r) ==
    /\ Serve(op, kind, name, id, ctype, body, r)
    /\ UNCHANGED cache

\* a request to a handler decorated with @cache.cached(timeout=5): the
\* response stored under the path of the request is served while it is
\* live; otherwise the handler runs and its response is stored
RespondCached(path, op, kind, name, id, r) ==
    IF cache[path].live
    THEN /\ Serve(op, kind, name, id, "json", EmptyBody,
                  WithBody(Result(db, 200, NoLoc), cache[path].doc))
         /\ UNCHANGED cache
    ELSE /\ Serve(op, kind, name, id, "json", EmptyBody, r)
         /\ cache' = [cache EXCEPT ![path] =
                         [live |-> TRUE, age |-> 0, doc |-> r.doc]]

NotFound == Result(db, 404, NoLoc)

\* the converter of the route answers 404 before the body is looked at:
\* one request stands for all on a key that does not resolve
BodiesFor(found, requests) == IF found THEN requests ELSE {<<"json", EmptyBody>>}

---------------------------------------------------------------------------
(* Requests on players *)

PlayerCreate ==
    \E q \in NameRequests :
        Respond("create", "player", "", 0, q[1], q[2],
                PlayerCollection_post(db, q[1], q[2]))

PlayerRead ==
    \E name \in Names :
        Respond("get", "player", name, 0, "json", EmptyBody,
                IF Resolves(db, "player", name)
                THEN PlayerItem_get(db, Resolve(db, "player", name))
                ELSE NotFound)

PlayerUpdate ==
    \E name \in Names :
      \E q \in BodiesFor(Resolves(db, "player", name), NameRequests) :
        Respond("put", "player", name, 0, q[1], q[2],
                IF Resolves(db, "player", name)
                THEN PlayerItem_put(db, Resolve(db, "player", name), q[1], q[2])
                ELSE NotFound)

PlayerDelete ==
    \E name \in Names :
        Respond("delete", "player", name, 0, "json", EmptyBody,
                IF Resolves(db, "player", name)
                THEN PlayerItem_delete(db, Resolve(db, "player", name))
                ELSE NotFound)

---------------------------------------------------------------------------
(* Requests on maps *)

\* POST /api/map/ (name = "") or POST /api/game/<game>/map/
MapCreate ==
    \E name \in Names \cup {""} :
      \E q \in BodiesFor(name = "" \/ Resolves(db, "game", name), NameRequests) :
        Respond("create", "map", name, 0, q[1], q[2],
                IF name = "" THEN MapCollection_post(db, NULL, q[1], q[2])
                ELSE IF Resolves(db, "game", name)
                THEN MapCollection_post(db, Resolve(db, "game", name).id, q[1], q[2])
                ELSE NotFound)

MapRead ==
    \E id \in Ids :
        Respond("get", "map", "", id, "json", EmptyBody,
                IF Resolves(db, "map", id)
                THEN MapItem_get(db, Resolve(db, "map", id))
                ELSE NotFound)

MapUpdate ==
    \E id \in Ids :
      \E q \in BodiesFor(Resolves(db, "map", id), NameRequests) :
        Respond("put", "map", "", id, q[1], q[2],
                IF Resolves(db, "map", id)
                THEN MapItem_put(db, Resolve(db, "map", id), q[1], q[2])
                ELSE NotFound)

MapDelete ==
    \E id \in Ids :
        Respond("delete", "map", "", id, "json", EmptyBody,
                IF Resolves(db, "map", id)
                THEN MapItem_delete(db, Resolve(db, "map", id))
                ELSE NotFound)

\* GET /api/player/
PlayerList ==
    Respond("list", "player", "", 0, "json", EmptyBody, PlayerCollection_get(db))

\* GET /api/map/ (name = "") or GET /api/game/<game>/map/
MapList ==
    \E name \in Names \cup {""} :
        IF name = ""
        THEN RespondCached(MapsPath(name), "list", "map", name, 0,
                           MapCollection_get(db, NULL))
        ELSE IF Resolves(db, "game", name)
        THEN RespondCached(MapsPath(name), "list", "map", name, 0,
                           MapCollection_get(db, Resolve(db, "game", name).id))
        ELSE Respond("list", "map", name, 0, "json", EmptyBody, NotFound)

\* GET /api/match/
MatchList ==
    RespondCached(url_for_collection("match"), "list", "match", "", 0,
                  MatchCollection_get(db))

---------------------------------------------------------------------------
(* Requests on matches *)

MatchCreate ==
    \E q \in MatchRequests :
        Respond("create", "match", "", 0, q[1], q[2],
                MatchCollection_post(db, q[1], q[2]))

MatchRead ==
    \E id \in Ids :
        Respond("get", "match", "", id, "json", EmptyBody,
                IF Resolves(db, "match", id)
                THEN MatchItem_get(db, Resolve(db, "match", id))
                ELSE NotFound)

MatchUpdate ==
    \E id \in Ids :
      \E q \in BodiesFor(Resolves(db, "match", id), MatchRequests) :
        Respond("put", "match", "", id, q[1], q[2],
                IF Resolves(db, "match", id)
                THEN MatchItem_put(db, Resolve(db, "match", id), q[1], q[2])
                ELSE NotFound)

MatchDelete ==
    \E id \in Ids :
        Respond("delete", "match", "", id, "json", EmptyBody,
                IF Resolves(db, "match", id)
                THEN MatchItem_delete(db, Resolve(db, "match", id))
                ELSE NotFound)

---------------------------------------------------------------------------
(* Requests on teams, games, rulesets and results *)

OtherKinds == {"team", "game", "ruleset"}
KeysOf(kind) == IF kind \in KeyedByName THEN Names ELSE Ids
KeyName(kind, key) == IF kind \in KeyedByName THEN key ELSE ""
KeyId(kind, key) == IF kind \in KeyedByName THEN 0 ELSE key

\* a Ruleset is created on /api/ruleset/ or under the Game of the route
OtherCreate ==
    \E kind \in OtherKinds, q \in NameRequests :
        \E game \in IF kind = "ruleset" THEN {NULL} \cup IdsOf(db.game) ELSE {NULL} :
            Respond("create", kind, "", game, q[1], q[2],
                    Collection_post(db, kind, game, q[1], q[2]))

OtherRead ==
    \E kind \in OtherKinds :
        \E key \in KeysOf(kind) :
            Respond("get", kind, KeyName(kind, key), KeyId(kind, key), "json",
                    EmptyBody,
                    IF Resolves(db, kind, key)
                    THEN Item_get(db, kind, Resolve(db, kind, key))
                    ELSE NotFound)

OtherUpdate ==
    \E kind \in OtherKinds :
        \E key \in KeysOf(kind) :
          \E q \in BodiesFor(Resolves(db, kind, key), NameRequests) :
            Respond("put", kind, KeyName(kind, key), KeyId(kind, key), q[1], q[2],
                    IF Resolves(db, kind, key)
                    THEN Item_put(db, kind, Resolve(db, kind, key), q[1], q[2])
                    ELSE NotFound)

OtherDelete ==
    \E kind \in OtherKinds :
        \E key \in KeysOf(kind) :
            Respond("delete", kind, KeyName(kind, key), KeyId(kind, key), "json",
                    EmptyBody,
                    IF Resolves(db, kind, key)
                    THEN Item_delete(db, kind, Resolve(db, kind, key))
                    ELSE NotFound)

PlayerResultCreate ==
    \E id \in Ids :
      \E q \in BodiesFor(Resolves(db, "match", id), ResultRequests) :
        \E p \in {NULL} \cup IdsOf(db.player), t \in {NULL} \cup IdsOf(db.team) :
            Respond("create", "player_result", "", id, q[1], q[2],
                    IF Resolves(db, "match", id)
                    THEN PlayerResultCollection_post(db, Resolve(db, "match", id),
                                                     q[1], q[2], p, t)
                    ELSE NotFound)

TeamResultCreate ==
    \E id \in Ids :
      \E q \in BodiesFor(Resolves(db, "match", id), ResultRequests) :
        \E t \in {NULL} \cup IdsOf(db.team) :
            Respond("create", "team_result", "", id, q[1], q[2],
                    IF Resolves(db, "match", id)
                    THEN TeamResultCollection_post(db, Resolve(db, "match", id),
                                                   q[1], q[2], t)
                    ELSE NotFound)

---------------------------------------------------------------------------

\* the response has been sent and the request context is torn down: the
\* server is ready for the next request
\* (variant: the session outlives the request)
RemoveSession_Keep == session' = session
\* db.session.remove() on teardown of the application context
RemoveSession == session' = "clean"

Teardown ==
    /\ last # NoRequest
    /\ last' = NoRequest
    /\ RemoveSession
    /\ UNCHANGED <<db, pc, sess, resp, prev, trip, cache, quiet>>

\* the statuses of a request that failed through the client
FailStatuses == {400, 404, 409, 415}

\* the same, noting the status of the request that ends when it failed
TeardownNoting ==
    /\ last # NoRequest
    /\ last' = NoRequest
    /\ RemoveSession
    /\ prev' = IF last.status \in FailStatuses THEN last.status ELSE 0
    /\ UNCHANGED <<db, pc, sess, resp, trip, cache, quiet>>

\* one second passes between two requests: a cached response that reaches
\* the timeout is dropped
Tick ==
    /\ last = NoRequest
    /\ cache' = [p \in CachedPaths |->
                    IF cache[p].live /\ cache[p].age + 1 < Timeout
                    THEN [cache[p] EXCEPT !.age = @ + 1]
                    ELSE NoEntry]
    /\ quiet' = IF quiet > Timeout THEN quiet ELSE quiet + 1
    /\ UNCHANGED <<db, last, pc, sess, resp, session, prev, trip>>

Next ==
    \/ PlayerCreate \/ PlayerRead \/ PlayerUpdate \/ PlayerDelete
    \/ MapCreate \/ MapRead \/ MapUpdate \/ MapDelete
    \/ MatchCreate \/ MatchRead \/ MatchUpdate \/ MatchDelete
    \/ OtherCreate \/ OtherRead \/ OtherUpdate \/ OtherDelete
    \/ PlayerResultCreate \/ TeamResultCreate
    \/ Teardown

Spec == Init /\ [][Next]_vars

\* the sequential server with the status of the previous request noted
NextNoting ==
    \/ PlayerCreate \/ PlayerRead \/ PlayerUpdate \/ PlayerDelete
    \/ MapCreate \/ MapRead \/ MapUpdate \/ MapDelete
    \/ MatchCreate \/ MatchRead \/ MatchUpdate \/ MatchDelete
    \/ OtherCreate \/ OtherRead \/ OtherUpdate \/ OtherDelete
    \/ PlayerResultCreate \/ TeamResultCreate
    \/ TeardownNoting

SpecNoting == Init /\ [][NextNoting]_vars

\* the server with the collection reads, their cache and the clock, in a
\* small world: of the other requests those that are answered with success,
\* CacheRows rows at most, one name for the Game, and a client that reads
\* the map lists or the match list but not both within one timeout (the
\* cached responses of the two do not interact)
Succeeds == last'.status \in {200, 201, 204} /\ TotalRows(db') <= CacheRows
NextCache ==
    \/ PlayerCreate /\ Succeeds
    \/ PlayerDelete /\ Succeeds
    \/ OtherCreate /\ Succeeds /\ last'.kind = "game"
                   /\ last'.body = NameBody(Str(NamePool[1]))
    \/ OtherDelete /\ Succeeds /\ last'.kind = "game"
    \/ MapCreate /\ Succeeds
    \/ MapDelete /\ Succeeds
    \/ MatchCreate /\ Succeeds
    \/ MatchDelete /\ Succeeds
    \/ MatchRead /\ Succeeds
    \/ PlayerResultCreate /\ Succeeds
    \/ TeamResultCreate /\ Succeeds
    \/ PlayerList
    \/ MapList /\ ~cache[url_for_collection("match")].live
    \/ MatchList /\ \A n \in Names \cup {""} : ~cache[MapsPath(n)].live
    \/ Tick
    \/ Teardown

SpecCache == Init /\ [][NextCache]_vars

---------------------------------------------------------------------------
(* Two workers, each handling one create request of PlayerCollection.post  *)
(* or MapCollection.post, interleaved step by step.  The store serialises  *)
(* writers: the INSERT of the flush takes the write lock, which the commit *)
(* releases, and the unique index is checked at the INSERT.                *)

ConcKinds == {"player", "map"}

\* one Game is stored, so that maps can be created under it
InitConc ==
    /\ db = Insert(EmptyStore, "game", Game(1, NamePool[1]))
    /\ last = NoRequest
    /\ pc = [w \in Workers |-> "idle"]
    /\ sess = [w \in Workers |-> NoSession]
    /\ resp = [w \in Workers |-> 0]
    /\ session = "clean"
    /\ prev = 0
    /\ trip = NoTrip
    /\ cache = EmptyCache
    /\ quiet = 0

\* the request arrives at a worker
Receive(w) ==
    /\ pc[w] = "idle"
    /\ \E kind \in ConcKinds, q \in NameRequests :
         sess' = [sess EXCEPT ![w] = [kind |-> kind, game |-> 1,
                                      ctype |-> q[1], body |-> q[2]]]
    /\ pc' = [pc EXCEPT ![w] = "received"]
    /\ UNCHANGED <<session, prev, trip, cache, quiet, db, last, resp>>

\* `if not request.json` and validate(request.json, schema)
ValidateStep(w) ==
    /\ pc[w] = "received"
    /\ IF NotRequestJson(sess[w].ctype, sess[w].body)
       THEN pc' = [pc EXCEPT ![w] = "done"] /\ resp' = [resp EXCEPT ![w] = 415]
       ELSE IF ~Validate(sess[w].body, NameSchema)
       THEN pc' = [pc EXCEPT ![w] = "done"] /\ resp' = [resp EXCEPT ![w] = 400]
       ELSE pc' = [pc EXCEPT ![w] = "validated"] /\ UNCHANGED resp
    /\ UNCHANGED <<session, prev, trip, cache, quiet, db, last, sess>>

\* db.session.add(row): the row is pending in the worker's session
AddStep(w) ==
    /\ pc[w] = "validated"
    /\ pc' = [pc EXCEPT ![w] = "added"]
    /\ UNCHANGED <<session, prev, trip, cache, quiet, db, last, sess, resp>>

PendingRow(d, w) ==
    IF sess[w].kind = "player"
    THEN Player(NextId(d.player), ValOf(sess[w].body["name"]))
    ELSE Map(NextId(d.map), ValOf(sess[w].body["name"]), sess[w].game)

\* the status of a create whose commit raised IntegrityError:
\* PlayerCollection.post catches it, MapCollection.post does not
IntegrityStatus(kind) == IF kind = "player" THEN 409 ELSE 500

\* db.session.commit(), first half: the flush sends the INSERT, which waits
\* for the write lock and then checks the constraints
FlushStep(w) ==
    /\ pc[w] = "added"
    /\ \A v \in Workers : pc[v] # "flushed"
    /\ IF RowOK(db, sess[w].kind, PendingRow(db, w))
       THEN pc' = [pc EXCEPT ![w] = "flushed"] /\ UNCHANGED resp
       ELSE /\ pc' = [pc EXCEPT ![w] = "done"]
            /\ resp' = [resp EXCEPT ![w] = IntegrityStatus(sess[w].kind)]
    /\ UNCHANGED <<session, prev, trip, cache, quiet, db, last, sess>>

\* db.session.commit(), second half: COMMIT makes the row visible and
\* releases the lock; the handler returns 201
CommitStep(w) ==
    /\ pc[w] = "flushed"
    /\ db' = Insert(db, sess[w].kind, PendingRow(db, w))
    /\ pc' = [pc EXCEPT ![w] = "done"]
    /\ resp' = [resp EXCEPT ![w] = 201]
    /\ UNCHANGED <<session, prev, trip, cache, quiet, last, sess>>

NextConc ==
    \E w \in Workers :
        \/ Receive(w) \/ ValidateStep(w) \/ AddStep(w)
        \/ FlushStep(w) \/ CommitStep(w)

SpecConc == InitConc /\ [][NextConc]_vars

---------------------------------------------------------------------------
(* A round trip through the serializers of one entity type: a valid        *)
(* payload is deserialized into a new entity, the entity is serialized,    *)
(* the output is deserialized into a new entity and serialized again.      *)

InitTrip ==
    /\ db = EmptyStore
    /\ last = NoRequest
    /\ pc = [w \in Workers |-> "idle"]
    /\ sess = [w \in Workers |-> NoSession]
    /\ resp = [w \in Workers |-> 0]
    /\ session = "clean"
    /\ prev = 0
    /\ cache = EmptyCache
    /\ quiet = 0
    /\ \E kind \in Kinds, payload \in MatchBodies \cup ResultBodies \cup PointsOnly
                                    \cup {NameBody(Str(n)) : n \in AllNames} :
          /\ payload \in Payloads(kind)
          /\ trip = [kind |-> kind, stage |-> 0, raised |-> FALSE,
                     ent |-> Fresh(kind), doc |-> payload, first |-> EmptyBody]

DeserializeStep ==
    /\ trip.stage \in {0, 2}
    /\ ~trip.raised
    /\ trip' = IF DeserializeRaises(trip.kind, trip.doc)
               THEN [trip EXCEPT !.raised = TRUE]
               ELSE [trip EXCEPT !.stage = @ + 1,
                                 !.ent = deserialize(trip.kind, Fresh(trip.kind),
                                                     trip.doc)]
    /\ UNCHANGED <<db, last, pc, sess, resp, session, prev, cache, quiet>>

SerializeStep ==
    /\ trip.stage \in {1, 3}
    /\ LET out == serialize(trip.kind, trip.ent)
       IN trip' = [trip EXCEPT !.stage = @ + 1, !.doc = out,
                               !.first = IF trip.stage = 1 THEN out ELSE @]
    /\ UNCHANGED <<db, last, pc, sess, resp, session, prev, cache, quiet>>

NextTrip == DeserializeStep \/ SerializeStep

SpecTrip == InitTrip /\ [][NextTrip]_vars

---------------------------------------------------------------------------
(* Helpers of the properties *)

\* a JSON body with a required field missing or of the wrong type
BadBody(kind, body) ==
    \E k \in SchemaOf(kind).required :
        ~Has(body, k) \/ TypeOf(body[k]) # SchemaOf(kind).props[k]

\* a JSON body that carries a name
CarriesName(ctype, body) ==
    ctype = "json" /\ Has(body, "name") /\ TypeOf(body["name"]) = "string"

\* the request just answered was a create of `kind` carrying a name, sent to
\* a collection that exists (for a Map: under a stored Game)
NamedCreate(kind) ==
    /\ last'.op = "create"
    /\ last'.kind = kind
    /\ CarriesName(last'.ctype, last'.body)
    /\ kind = "map" => Resolves(db, "game", last'.name)

RowsNamed(d, kind, name) == {r \in d[kind] : r.name = name}

---------------------------------------------------------------------------
\* C1: for Player, Team, Game and Map, a create that carries the name of a
\* stored row is answered 409 and stores nothing, and a create that carries
\* a name not yet stored is answered 201; either way exactly one row with
\* that name is stored afterwards.
C1_DuplicateCreate ==
    [][\A kind \in UniqueKinds :
          NamedCreate(kind) =>
             LET name == ValOf(last'.body["name"])
             IN /\ Cardinality(RowsNamed(db', kind, name)) = 1
                /\ IF RowsNamed(db, kind, name) # {}
                   THEN last'.status = 409 /\ db' = db
                   ELSE last'.status = 201]_vars

\* C2: in every reachable state no two stored Players, Teams, Games or Maps
\* share a name.
C2_UniqueNames ==
    \A kind \in UniqueKinds :
        \A r1 \in db[kind], r2 \in db[kind] : r1.name = r2.name => r1 = r2

\* a rename to the name of another stored row has just been refused while
\* two rows are stored
C2_Witness ==
    /\ last.op = "put"
    /\ last.kind \in {"player", "map"}
    /\ last.status = 409
    /\ Cardinality(db[last.kind]) = 2

\* C3: two concurrent creates of the same kind with the same fresh name:
\* when both are answered, one got 201 and the other 409.
C3_OneWinsOneConflict ==
    \A v \in Workers, w \in Workers :
        /\ v # w
        /\ pc[v] = "done" /\ pc[w] = "done"
        /\ sess[v].kind = sess[w].kind
        /\ CarriesName(sess[v].ctype, sess[v].body)
        /\ sess[v].body = sess[w].body
        => {resp[v], resp[w]} = {201, 409}

\* the same for two Player creates alone, which holds under every
\* interleaving
PlayerRaceOneWinsOneConflict ==
    \A v \in Workers, w \in Workers :
        /\ v # w
        /\ pc[v] = "done" /\ pc[w] = "done"
        /\ sess[v].kind = "player" /\ sess[w].kind = "player"
        /\ CarriesName(sess[v].ctype, sess[v].body)
        /\ sess[v].body = sess[w].body
        => {resp[v], resp[w]} = {201, 409}

---------------------------------------------------------------------------
\* the request just answered was a delete of a stored row of `kind`
Deleted(kind) ==
    /\ last'.op = "delete"
    /\ last'.kind = kind
    /\ last'.status = 204

RouteKey(req) == IF req.kind \in KeyedByName THEN req.name ELSE req.id

ResultKinds == {"player_result", "team_result"}

\* C4: deleting a Match (204) removes exactly the PlayerResult and
\* TeamResult rows whose match_id is that Match: none of them is stored
\* afterwards and the results of other Matches are stored unchanged.
C4_MatchDeleteCascades ==
    [][Deleted("match") =>
          \A k \in ResultKinds :
             /\ \A r \in db'[k] : r.match_id # last'.id
             /\ \A r \in db[k] : r.match_id # last'.id => r \in db'[k]
             /\ db'[k] \subseteq db[k]]_vars

\* a Match has just been deleted and the result of another Match is still
\* stored
C4_Witness ==
    /\ last.op = "delete" /\ last.kind = "match" /\ last.status = 204
    /\ \E k \in ResultKinds : \E r \in db[k] : r.match_id \in IdsOf(db.match)

\* the column that refers to a row of `kind`
RefCol(kind) ==
    CASE kind = "game" -> "game_id"
      [] kind = "map" -> "map_id"
      [] kind = "ruleset" -> "ruleset_id"
      [] kind = "player" -> "player_id"
      [] kind = "team" -> "team_id"

\* row r as it is after the row `id` of `kind` is gone: the reference to it
\* is absent, every other column is unchanged
Detached(r, kind, id) ==
    [c \in DOMAIN r |-> IF c = RefCol(kind) /\ r[c] = id THEN NULL ELSE r[c]]

DetachKinds == {"game", "map", "ruleset", "player", "team"}

\* C5: deleting a Game, Map, Ruleset, Player or Team removes that one row;
\* every row of every other table stays stored, unchanged but for its
\* reference to the deleted row, which is absent; and reading a stored row
\* is answered 200.
C5_DeleteDetaches ==
    [][/\ \A kind \in DetachKinds :
            Deleted(kind) =>
               LET gone == Resolve(db, kind, RouteKey(last'))
               IN /\ db'[kind] = db[kind] \ {gone}
                  /\ \A k \in Kinds \ {kind} :
                        db'[k] = {Detached(r, kind, gone.id) : r \in db[k]}
       /\ (last'.op = "get" /\ Resolves(db, last'.kind, RouteKey(last')))
             => last'.status = 200 /\ db' = db]_vars

\* a Game has just been deleted and a Map that belonged to a Game is still
\* stored, now without a Game
C5_Witness ==
    /\ last.op = "delete" /\ last.kind = "game" /\ last.status = 204
    /\ \E m \in db.map : m.game_id = NULL
    /\ db.match # {}

---------------------------------------------------------------------------
\* C6: a create whose JSON body misses a required field, or carries one of
\* the wrong type, leaves every table as it was.
C6_BadCreateStoresNothing ==
    [][(last'.op = "create" /\ BadBody(last'.kind, last'.body)) => db' = db]_vars

\* a create with a bad body has just been refused by the validation while
\* rows are stored
C6_Witness ==
    /\ last.op = "create"
    /\ last.ctype = "json"
    /\ BadBody(last.kind, last.body)
    /\ last.status = 400
    /\ TotalRows(db) > 0

\* C7: a create or update with a JSON body that misses a required field or
\* carries one of the wrong type is answered 400, and 415 answers only a
\* request of another content type.
C7_BadBodyIs400 ==
    /\ (/\ last.op \in {"create", "put"}
        /\ last.ctype = "json"
        /\ BadBody(last.kind, last.body)
        /\ last.status # 404)
          => last.status = 400
    /\ last.status = 415 => last.ctype # "json"

---------------------------------------------------------------------------
C8Kinds == {"player", "match", "game", "map"}

\* a delete of a stored row is answered 204 and the key no longer resolves;
\* a read or delete on a key that does not resolve is answered 404 and
\* changes nothing
C8_DeleteAndMiss ==
    \A kind \in C8Kinds :
        /\ (last'.op = "delete" /\ last'.kind = kind
               /\ Resolves(db, kind, RouteKey(last')))
              => last'.status = 204 /\ ~Resolves(db', kind, RouteKey(last'))
        /\ (last'.op \in {"get", "delete"} /\ last'.kind = kind
               /\ ~Resolves(db, kind, RouteKey(last')))
              => last'.status = 404 /\ db' = db

\* the key of `kind` starts to resolve in this step
Appears(kind, key) == ~Resolves(db, kind, key) /\ Resolves(db', kind, key)

\* C8 as stated: for Player, Match, Game and Map a delete of a stored row is
\* answered 204 and removes it, a read or delete on a key that does not
\* resolve is answered 404 and changes nothing, and a key that does not
\* resolve stays so until a create of that kind.
C8_GoneUntilCreated ==
    [][/\ C8_DeleteAndMiss
       /\ \A kind \in C8Kinds : \A key \in KeysOf(kind) :
             Appears(kind, key) => last'.op = "create" /\ last'.kind = kind]_vars

\* C8 as amended: ... stays so until a create of that kind or, for the
\* kinds keyed by name, an update of that kind that carries the key as the
\* new name.
C8_GoneUntilCreatedOrRenamed ==
    [][/\ C8_DeleteAndMiss
       /\ \A kind \in C8Kinds : \A key \in KeysOf(kind) :
             Appears(kind, key) =>
                \/ last'.op = "create" /\ last'.kind = kind
                \/ /\ last'.op = "put" /\ last'.kind = kind
                   /\ kind \in KeyedByName
                   /\ last'.body = NameBody(Str(key))]_vars

\* a Player has just been deleted by name while another Player is stored
C8_Witness ==
    /\ last.op = "delete" /\ last.kind = "player" /\ last.status = 204
    /\ ~Resolves(db, "player", last.name)
    /\ db.player # {}

---------------------------------------------------------------------------
\* a body that satisfies the Match schema: an ISO date string and a number
\* of turns, and every reference that is supplied is null or the id of a
\* stored row
RefTable(k) ==
    CASE k = "game_id" -> "game" [] k = "ruleset_id" -> "ruleset"
      [] k = "map_id" -> "map"
GoodMatchBody(d, body) ==
    /\ Has(body, "date") /\ TypeOf(body["date"]) = "string"
    /\ IsIso(ValOf(body["date"]))
    /\ Has(body, "turns") /\ TypeOf(body["turns"]) = "number"
    /\ \A k \in RefKeys :
          Has(body, k) => FkOK(d[RefTable(k)], ColOf(body[k]))

\* C9: a Match create with such a body is answered 201 and stores exactly
\* one new Match, with the date and turns of the body and with every
\* reference that the body does not supply absent.
C9_ValidMatchCreated ==
    [][(/\ last'.op = "create" /\ last'.kind = "match"
        /\ last'.ctype = "json"
        /\ GoodMatchBody(db, last'.body))
          => /\ last'.status = 201
             /\ \E m \in db'.match :
                   /\ m \notin db.match
                   /\ db'.match = db.match \cup {m}
                   /\ m.date = fromisoformat(ValOf(last'.body["date"]))
                   /\ m.turns = ValOf(last'.body["turns"])
                   /\ \A k \in RefKeys :
                         m[k] = IF Has(last'.body, k)
                                THEN ColOf(last'.body[k]) ELSE NULL]_vars

\* C10: a create of a Player, Map or Match that is answered 201 carries a
\* Location that is the item path of a stored row of that kind.
C10_CreatedHasLocation ==
    (/\ last.op = "create"
     /\ last.kind \in {"player", "map", "match"}
     /\ last.status = 201)
       => /\ last.loc # NoLoc
          /\ last.loc[1] = last.kind
          /\ Resolves(db, last.kind, last.loc[2])

---------------------------------------------------------------------------
\* the request just answered was an update of a stored Player, Map or Match
\* with a body valid under its schema
ValidUpdate(kind) ==
    /\ last'.op = "put"
    /\ last'.kind = kind
    /\ Resolves(db, kind, RouteKey(last'))
    /\ last'.ctype = "json"
    /\ IF kind = "match" THEN GoodMatchBody(db, last'.body)
       ELSE CarriesName(last'.ctype, last'.body)

\* the new name is the name of a different stored row of the kind
NameTaken(kind) ==
    /\ kind \in UniqueKinds
    /\ \E r \in db[kind] :
          /\ r.id # Resolve(db, kind, RouteKey(last')).id
          /\ r.name = ValOf(last'.body["name"])

\* the stored row carries the fields of the body, and every other row of
\* the kind is as it was
Replaced(kind) ==
    LET old == Resolve(db, kind, RouteKey(last'))
        new == RowById(db'[kind], old.id)
    IN /\ old.id \in IdsOf(db'[kind])
       /\ db'[kind] \ {new} = db[kind] \ {old}
       /\ IF kind = "match"
          THEN /\ new.date = fromisoformat(ValOf(last'.body["date"]))
               /\ new.turns = ValOf(last'.body["turns"])
          ELSE new.name = ValOf(last'.body["name"])

\* C11: an update of a stored Player, Map or Match with a valid body
\* replaces the fields and is answered 204; when the new name is the name of
\* a different stored row it is answered 409 and the store is as it was.
C11_UpdateReplaces ==
    [][\A kind \in {"player", "map", "match"} :
          ValidUpdate(kind) =>
             IF NameTaken(kind)
             THEN last'.status = 409 /\ db' = db
             ELSE last'.status = 204 /\ Replaced(kind)]_vars

\* the same with the status left open, and for a Match only when the body
\* supplies every reference: the fields are replaced, or on a conflict the
\* update is answered 409 and nothing is written
UpdateReplacesOrConflicts ==
    [][\A kind \in {"player", "map", "match"} :
          (ValidUpdate(kind)
             /\ (kind = "match" => \A k \in RefKeys : Has(last'.body, k))) =>
             IF NameTaken(kind)
             THEN last'.status = 409 /\ db' = db
             ELSE last'.status \in {200, 204} /\ Replaced(kind)]_vars

---------------------------------------------------------------------------
\* the request just answered was a create of a Match, or an update of a
\* stored Match, whose body is valid under the schema and supplies every
\* reference, one of them an id that is not stored
BadReference ==
    /\ last'.kind = "match"
    /\ \/ last'.op = "create"
       \/ last'.op = "put" /\ Resolves(db, "match", last'.id)
    /\ last'.ctype = "json"
    /\ Validate(last'.body, Match_get_schema)
    /\ ~MatchFieldsRaise(last'.body)
    /\ \E k \in RefKeys : ~FkOK(db[RefTable(k)], ColOf(last'.body[k]))

\* C12: a Match create or update whose game_id, ruleset_id or map_id is an
\* id that is not stored is answered 409 and leaves the store as it was.
C12_BadReferenceIs409 ==
    [][BadReference => last'.status = 409 /\ db' = db]_vars

\* the same with the status of the create left open: the store is as it
\* was, and the update is answered 409
BadReferenceStoresNothing ==
    [][BadReference =>
          /\ db' = db
          /\ last'.status = IF last'.op = "put" THEN 409 ELSE 500]_vars

---------------------------------------------------------------------------
---------------------------------------------------------------------------
\* a Player create with a valid body and a name that no Player carries
FreshPlayerCreate ==
    /\ last'.op = "create" /\ last'.kind = "player"
    /\ CarriesName(last'.ctype, last'.body)
    /\ ValOf(last'.body["name"]) \notin NamesOf(db.player)

---------------------------------------------------------------------------
\* the fields the schema of the kind governs
Governed(kind) == DOMAIN SchemaOf(kind).props

RoundTripOfNamesAndPoints ==
    trip.kind \in Kinds \ {"match", "team_result"} =>
       /\ ~trip.raised
       /\ trip.stage \in {2, 4} =>
             \A f \in Governed(trip.kind) : Has(trip.doc, f)
       /\ trip.stage = 4 => trip.doc = trip.first

---------------------------------------------------------------------------
\* the document carries a "self" control with this href
HasSelf(doc, href) ==
    "self" \in DOMAIN doc.controls /\ doc.controls["self"] = href

\* the response just sent is the Match collection, or a Match item
MatchListed == last.op = "list" /\ last.kind = "match" /\ last.status = 200
MatchShown == last.op = "get" /\ last.kind = "match" /\ last.status = 200

\* the collection document, each member of its items, the item document
\* and each nested result document carry "self" with their own path
ListedDocumentsHaveSelf ==
    /\ MatchListed =>
          /\ HasSelf(last.doc, url_for_collection("match"))
          /\ \A i \in DOMAIN last.doc.items :
                HasSelf(last.doc.items[i],
                        url_for("match", ValOf(last.doc.items[i].data["id"])))
    /\ MatchShown =>
          /\ HasSelf(last.doc, url_for("match", last.id))
          /\ \A kind \in ResultKinds :
                LET rows == ResultsOf(db, kind, RowById(db.match, last.id))
                    docs == IF kind = "player_result" THEN last.doc.player_results
                            ELSE last.doc.team_results
                IN /\ Len(docs) = Len(rows)
                   /\ \A i \in DOMAIN docs :
                         HasSelf(docs[i], url_for_result(kind, last.id, rows[i].id))

---------------------------------------------------------------------------
\* the entries of a list response, by name: one for every row and no other
OnePerName(doc, rows) ==
    /\ Len(doc.items) = Cardinality(rows)
    /\ \A r \in rows :
          Cardinality({i \in DOMAIN doc.items :
                          doc.items[i].data["name"] = Str(r.name)}) = 1

ListedKinds == {"map", "match"}

\* C17 as stated: the Player collection is answered 200 with exactly one
\* entry per stored Player, carrying its name; and the Match collection and
\* the Map collection are answered with as many entries as Matches and Maps
\* are stored.
C17_OneEntryPerRow ==
    /\ (last.op = "list" /\ last.kind = "player")
          => last.status = 200 /\ OnePerName(last.doc, db.player)
    /\ \A kind \in ListedKinds :
          (last.op = "list" /\ last.kind = kind /\ last.name = "")
             => /\ last.status = 200
                /\ Len(last.doc.items) = Cardinality(db[kind])

\* C17 as amended: the Player collection as stated; the Match collection
\* and the Map collection are answered with as many entries as rows were
\* stored when the response was computed, which is now or, when a response
\* cached less than Timeout seconds ago is served, then; a cached response
\* computed after the last committed write has one entry per stored row.
C17_OneEntryPerRowWhenComputed ==
    [][/\ (last'.op = "list" /\ last'.kind = "player")
             => last'.status = 200 /\ OnePerName(last'.doc, db'.player)
       /\ \A kind \in ListedKinds :
             LET p == url_for_collection(kind)
             IN /\ (/\ last = NoRequest /\ last'.op = "list"
                    /\ last'.kind = kind /\ last'.name = "")
                      => /\ last'.status = 200
                         /\ IF cache[p].live
                            THEN /\ last'.doc = cache[p].doc
                                 /\ cache[p].age < Timeout
                            ELSE Len(last'.doc.items) = Cardinality(db[kind])
                /\ (cache'[p].live /\ cache'[p].age < quiet')
                      => Len(cache'[p].doc.items) = Cardinality(db'[kind])]_vars

\* the Player collection has just been read with its one Player, while the
\* cached Map collection still shows a Map that has been deleted
C17_Witness ==
    /\ last.op = "list" /\ last.kind = "player" /\ last.status = 200
    /\ Len(last.doc.items) = 1
    /\ cache[url_for_collection("map")].live
    /\ Len(cache[url_for_collection("map")].doc.items) = 1
    /\ db.map = {}

---------------------------------------------------------------------------
\* the path of a list request, and what its handler computes from a store
PathOf(req) ==
    IF req.kind = "match" THEN url_for_collection("match") ELSE MapsPath(req.name)
Routable(d, p) == Len(p) = 1 \/ Resolves(d, "game", p[2])
Computed(d, p) ==
    CASE p = url_for_collection("match") -> MatchCollection_get(d).doc
      [] p = url_for_collection("map") -> MapCollection_get(d, NULL).doc
      [] OTHER -> MapCollection_get(d, Resolve(d, "game", p[2]).id).doc

\* a list request on a cached path has just been answered
CachedListStep ==
    /\ last = NoRequest
    /\ last'.op = "list" /\ last'.kind \in ListedKinds /\ last'.status = 200

---------------------------------------------------------------------------
\* the column `col` of every row of `kind` is absent or the id of a stored
\* row of the table `to`
RefsStored(d, kind, col, to) ==
    \A r \in d[kind] : r[col] # NULL => r[col] \in IdsOf(d[to])

NoDangling(d) ==
    /\ RefsStored(d, "map", "game_id", "game")
    /\ RefsStored(d, "ruleset", "game_id", "game")
    /\ RefsStored(d, "match", "game_id", "game")
    /\ RefsStored(d, "match", "ruleset_id", "ruleset")
    /\ RefsStored(d, "match", "map_id", "map")
    /\ RefsStored(d, "player_result", "match_id", "match")
    /\ RefsStored(d, "player_result", "player_id", "player")
    /\ RefsStored(d, "player_result", "team_id", "team")
    /\ RefsStored(d, "team_result", "match_id", "match")
    /\ RefsStored(d, "team_result", "team_id", "team")

\* C19: after any sequence of create, update and delete requests every
\* non-absent game_id of a Map, Ruleset or Match, every non-absent ruleset_id
\* and map_id of a Match, and every non-absent match_id, player_id and
\* team_id of a PlayerResult or TeamResult is the id of a stored row of the
\* referenced table.
C19_NoDanglingReference == NoDangling(db)

\* a Game has just been deleted while a Map that referred to it is stored
\* and a Match still refers to that Map
C19_Witness ==
    /\ last.op = "delete" /\ last.kind = "game" /\ last.status = 204
    /\ \E m \in db.map :
          /\ m.game_id = NULL
          /\ \E t \in db.match : t.map_id = m.id

---------------------------------------------------------------------------
\* the controls every Match item document carries
MatchItemControls ==
    {"self", "profile", "edit", "BGT:add-player-result", "BGT:add-team-result"}

\* the results of `kind` stored for the Match with key `id`
StoredResults(kind, id) == {r \in db[kind] : r.match_id = id}

\* `list` has exactly one member per stored result of `kind` of the Match
\* `id`, and each member's self and edit controls are the path of that
\* result under that Match
OnePerResult(list, kind, id) ==
    /\ Len(list) = Cardinality(StoredResults(kind, id))
    /\ {list[i].controls["self"] : i \in DOMAIN list}
          = {url_for_result(kind, id, r.id) : r \in StoredResults(kind, id)}
    /\ \A i \in DOMAIN list :
          /\ DOMAIN list[i].controls = {"self", "edit"}
          /\ list[i].controls["edit"] = list[i].controls["self"]

\* C20: the document of a GET on a Match item carries the controls self,
\* profile, edit, BGT:add-player-result and BGT:add-team-result whether or
\* not the Match has results, and its player_results and team_results hold
\* exactly one member per PlayerResult / TeamResult stored for the Match,
\* each with self and edit controls addressing that result under the Match.
C20_MatchItemControlsAndResults ==
    MatchShown =>
        /\ MatchItemControls \subseteq DOMAIN last.doc.controls
        /\ last.doc.controls["self"] = url_for("match", last.id)
        /\ last.doc.controls["BGT:add-player-result"]
              = url_for_results("player_result", last.id)
        /\ last.doc.controls["BGT:add-team-result"]
              = url_for_results("team_result", last.id)
        /\ OnePerResult(last.doc.player_results, "player_result", last.id)
        /\ OnePerResult(last.doc.team_results, "team_result", last.id)

\* a Match with a PlayerResult and without a TeamResult has just been shown
C20_Witness ==
    /\ MatchShown
    /\ StoredResults("player_result", last.id) # {}
    /\ StoredResults("team_result", last.id) = {}
    /\ Len(last.doc.player_results) > 0

====
